---- MODULE Spec2Model ----
(***************************************************************************)
(* The indexer processor (src/src/processor/common.rs), the client         *)
(* notifier that feeds it (src/src/client/common.rs) and the delta ledger  *)
(* it drives, as a state machine.  The ledger (StorageProcessor) and the   *)
(* component harness are not part of the sources at hand; their operators  *)
(* follow the operation contracts of the specification, section 4.2/4.5.   *)
(***************************************************************************)
EXTENDS Integers, Sequences, FiniteSets, TLC

(* ------------------------------ bounds -------------------------------- *)
MaxRuns == 2        \* process runs (restarts + 1) in one behaviour
MaxZmq == 2         \* rawtx frames the ZMQ ingest delivers (ingest starts)
MaxCmd == 2         \* events the client notifier pushes (ledger starts)
MixZmq == 1         \* frames delivered in a start that mixes both
MixCmd == 1         \* events pushed in a start that mixes both
MaxFaults == 1      \* failing ledger / RPC calls in one behaviour
MaxTime == 2        \* timestamps are 1..MaxTime
MaxBatch == 2       \* ops in one WriteBatch
MaxKvOps == 3       \* calls on the MemoryDB in one behaviour

TxIds == {"T1", "T2"}
Addresses == {"A"}
Tokens == {"Tok"}
Time == 1..MaxTime

NoRec == [none |-> TRUE]
NoEvent == [type |-> "none"]

(* ------------------------------ helpers ------------------------------- *)
RECURSIVE SumAmounts(_, _)
SumAmounts(list, tok) ==
    IF list = <<>> THEN 0
    ELSE (IF Head(list)[1] = tok THEN Head(list)[2] ELSE 0)
         + SumAmounts(Tail(list), tok)

RECURSIVE SumOver(_, _, _, _)
SumOver(S, dl, a, t) ==
    IF S = {} THEN 0
    ELSE LET x == CHOOSE y \in S : TRUE
         IN  SumAmounts(dl[x].deltas[a], t) + SumOver(S \ {x}, dl, a, t)

Range(s) == {s[i] : i \in 1..Len(s)}

RECURSIVE CountIn(_, _)
CountIn(s, e) ==
    IF s = <<>> THEN 0
    ELSE (IF Head(s) = e THEN 1 ELSE 0) + CountIn(Tail(s), e)

(* TransactionDelta values the executor reports (types/delta.rs):         *)
(* address -> list of (token, amount); the same pair may repeat.          *)
DeltaOf(x) ==
    IF x = "T1" THEN [a \in Addresses |-> << <<"Tok", 1>>, <<"Tok", 2>> >>]
    ELSE [a \in Addresses |-> << <<"Tok", 1>> >>]

TransactionDelta == {[tx_id |-> x, deltas |-> DeltaOf(x)] : x \in TxIds}

(* ------------------------------ ledger -------------------------------- *)
(* SeenState returned by seen_and_store_txs *)
Fresh == [seen |-> FALSE, executed |-> FALSE]
SeenSt(ex) == [seen |-> TRUE, executed |-> ex]

seen_and_store_txs(sn, x, ts) ==
    IF sn[x] = NoRec
    THEN [seen |-> [sn EXCEPT ![x] = [ts |-> ts, executed |-> FALSE]],
          state |-> Fresh]
    ELSE [seen |-> sn, state |-> SeenSt(sn[x].executed)]

IsTerminal(rec) == rec # NoRec /\ rec.status \in {"Confirmed", "InActive"}

(* Variant: the delta is stored also over a terminal record *)
Mut_add_delta_overwrites(dl, d) ==
    [dl EXCEPT ![d.tx_id] = [status |-> "Active", deltas |-> d.deltas]]

(* Variant: a repeated delta is added to the amounts already recorded *)
Mut_add_delta_accumulates(dl, d) ==
    IF IsTerminal(dl[d.tx_id]) THEN dl
    ELSE IF dl[d.tx_id] = NoRec
    THEN [dl EXCEPT ![d.tx_id] = [status |-> "Active", deltas |-> d.deltas]]
    ELSE [dl EXCEPT ![d.tx_id].deltas =
              [a \in Addresses |-> dl[d.tx_id].deltas[a] \o d.deltas[a]]]

add_transaction_delta(dl, d) ==
    IF IsTerminal(dl[d.tx_id]) THEN dl
    ELSE [dl EXCEPT ![d.tx_id] = [status |-> "Active", deltas |-> d.deltas]]

(* Variant: an unknown tx_id gets a record in the target status *)
Mut_remove_records_unknown(dl, x, target) ==
    IF dl[x] = NoRec
    THEN [dl EXCEPT ![x] = [status |-> target, deltas |-> DeltaOf(x)]]
    ELSE IF dl[x].status = "Active" THEN [dl EXCEPT ![x].status = target]
    ELSE dl

remove_transaction_delta(dl, x, target) ==
    IF dl[x] # NoRec /\ dl[x].status = "Active"
    THEN [dl EXCEPT ![x].status = target]
    ELSE dl

get_all_un_consumed_txs(sn, dl) ==
    { <<x, sn[x].ts>> : x \in { y \in TxIds :
          /\ sn[y] # NoRec
          /\ \/ ~sn[y].executed
             \/ (dl[y] # NoRec /\ dl[y].status = "Active") } }

get_balance(dl, a, t) ==
    SumOver({x \in TxIds : dl[x] # NoRec /\ dl[x].status \in {"Active", "Confirmed"}},
            dl, a, t)

(* --------------------------- wire formats ----------------------------- *)
(* Consensus-serialized bytes of the transaction with id x, and a frame   *)
(* that does not decode.                                                  *)
Transaction(x) == [txid |-> x]
serialize(tx) == <<"raw", tx.txid>>
Malformed == <<"junk">>
RawFrames == {serialize(Transaction(x)) : x \in TxIds} \cup {Malformed}

(* deserialize(..).expect(..): a frame that does not decode panics *)
parse_zmq_data(data) ==
    IF Len(data) = 2 /\ data[1] = "raw"
    THEN [panic |-> FALSE, tx_id |-> data[2], tx |-> Transaction(data[2])]
    ELSE [panic |-> TRUE]

(* IndexerEvent *)
NewTxComing(data) == [type |-> "NewTxComing", data |-> data]
TxFromRestoreByTxId(x) == [type |-> "TxFromRestoreByTxId", tx_id |-> x]
UpdateDelta(d) == [type |-> "UpdateDelta", delta |-> d]
TxConfirmed(x) == [type |-> "TxConfirmed", tx_id |-> x]
TxRemoved(x) == [type |-> "TxRemoved", tx_id |-> x]
ReportHeight(h) == [type |-> "ReportHeight", height |-> h]
ReportReorg(l) == [type |-> "ReportReorg", txs |-> l]
GetBalance(a) == [type |-> "GetBalance", address |-> a]

(* ClientEvent *)
EvTransaction(tx) == [type |-> "Transaction", tx |-> tx]
EvTxDroped(x) == [type |-> "TxDroped", tx_id |-> x]

ReorgLists == {<<"T1">>, <<"T1", "T1", "T1">>, <<"T1", "T2">>}

(* Events the embedder pushes through the client notifier *)
ClientCommands ==
    {UpdateDelta(d) : d \in TransactionDelta}
    \cup {TxConfirmed(x) : x \in TxIds} \cup {TxRemoved(x) : x \in TxIds}
    \cup {ReportHeight(1)} \cup {ReportReorg(l) : l \in ReorgLists}

(* ----------------------------- processor ------------------------------ *)
(* Every handler returns the ledger columns and the client queue it       *)
(* leaves, and res: "ok" (Ok(())), "err" (Err via ?), "panic".            *)
(* Variant: a seen transaction is skipped whatever the event's origin *)
Mut_new_tx_skip_seen(sn, cq, data, from_restore, ts, ledgerOk) ==
    LET p == parse_zmq_data(data) IN
    IF p.panic THEN [sn |-> sn, cq |-> cq, res |-> "panic"]
    ELSE IF ~ledgerOk THEN [sn |-> sn, cq |-> cq, res |-> "err"]
    ELSE LET r == seen_and_store_txs(sn, p.tx_id, ts)
         IN  IF r.state.seen
             THEN [sn |-> r.seen, cq |-> cq, res |-> "ok"]
             ELSE [sn |-> r.seen, cq |-> Append(cq, EvTransaction(p.tx)),
                   res |-> "ok"]

(* Variant: a seen, not executed transaction is emitted from any origin *)
Mut_new_tx_emit_unexecuted(sn, cq, data, from_restore, ts, ledgerOk) ==
    LET p == parse_zmq_data(data) IN
    IF p.panic THEN [sn |-> sn, cq |-> cq, res |-> "panic"]
    ELSE IF ~ledgerOk THEN [sn |-> sn, cq |-> cq, res |-> "err"]
    ELSE LET r == seen_and_store_txs(sn, p.tx_id, ts)
         IN  IF r.state.seen /\ r.state.executed
             THEN [sn |-> r.seen, cq |-> cq, res |-> "ok"]
             ELSE [sn |-> r.seen, cq |-> Append(cq, EvTransaction(p.tx)),
                   res |-> "ok"]

(* Variant: the Transaction is sent before the ledger is asked *)
Mut_new_tx_emit_first(sn, cq, data, from_restore, ts, ledgerOk) ==
    LET p == parse_zmq_data(data) IN
    IF p.panic THEN [sn |-> sn, cq |-> cq, res |-> "panic"]
    ELSE IF ~ledgerOk
    THEN [sn |-> sn, cq |-> Append(cq, EvTransaction(p.tx)), res |-> "err"]
    ELSE LET r == seen_and_store_txs(sn, p.tx_id, ts)
             emit == [sn |-> r.seen, cq |-> Append(cq, EvTransaction(p.tx)),
                      res |-> "ok"]
             skip == [sn |-> r.seen, cq |-> cq, res |-> "ok"]
         IN  IF r.state.seen
             THEN IF from_restore
                  THEN IF r.state.executed THEN skip ELSE emit
                  ELSE skip
             ELSE emit

do_handle_new_tx_coming(sn, cq, data, from_restore, ts, ledgerOk) ==
    LET p == parse_zmq_data(data) IN
    IF p.panic THEN [sn |-> sn, cq |-> cq, res |-> "panic"]
    ELSE IF ~ledgerOk THEN [sn |-> sn, cq |-> cq, res |-> "err"]
    ELSE LET r == seen_and_store_txs(sn, p.tx_id, ts)
             emit == [sn |-> r.seen, cq |-> Append(cq, EvTransaction(p.tx)),
                      res |-> "ok"]
             skip == [sn |-> r.seen, cq |-> cq, res |-> "ok"]
         IN  IF r.state.seen
             THEN IF from_restore
                  THEN IF r.state.executed THEN skip ELSE emit
                  ELSE skip
             ELSE emit

do_handle_restore_tx_by_tx_id(sn, cq, tx_id, ts, rpcOk, ledgerOk) ==
    IF ~rpcOk THEN [sn |-> sn, cq |-> cq, res |-> "err"]
    ELSE do_handle_new_tx_coming(sn, cq, serialize(Transaction(tx_id)), TRUE,
                                 ts, ledgerOk)

do_handle_get_balance(a) == "panic"

do_handle_update_delta(dl, d, ledgerOk) ==
    IF ~ledgerOk THEN [dl |-> dl, res |-> "err"]
    ELSE [dl |-> add_transaction_delta(dl, d), res |-> "ok"]

do_handle_tx_confirmed(dl, tx_id, status, ledgerOk) ==
    IF ~ledgerOk THEN [dl |-> dl, res |-> "err"]
    ELSE [dl |-> remove_transaction_delta(dl, tx_id, status), res |-> "ok"]

(* Variant: the tx is reported as confirmed, not as inactive *)
Mut_tx_removed_confirms(dl, cq, tx_id, ledgerOk) ==
    LET r == do_handle_tx_confirmed(dl, tx_id, "Confirmed", ledgerOk) IN
    IF r.res = "err" THEN [dl |-> dl, cq |-> cq, res |-> "err"]
    ELSE [dl |-> r.dl, cq |-> Append(cq, EvTxDroped(tx_id)), res |-> "ok"]

(* Variant: TxDroped is sent only when the ledger changed *)
Mut_tx_removed_quiet(dl, cq, tx_id, ledgerOk) ==
    LET r == do_handle_tx_confirmed(dl, tx_id, "InActive", ledgerOk) IN
    IF r.res = "err" THEN [dl |-> dl, cq |-> cq, res |-> "err"]
    ELSE [dl |-> r.dl,
          cq |-> IF r.dl = dl THEN cq ELSE Append(cq, EvTxDroped(tx_id)),
          res |-> "ok"]

(* Variant: TxDroped is sent whether or not the ledger call succeeded *)
Mut_tx_removed_emit_on_error(dl, cq, tx_id, ledgerOk) ==
    LET r == do_handle_tx_confirmed(dl, tx_id, "InActive", ledgerOk) IN
    IF r.res = "err"
    THEN [dl |-> dl, cq |-> Append(cq, EvTxDroped(tx_id)), res |-> "err"]
    ELSE [dl |-> r.dl, cq |-> Append(cq, EvTxDroped(tx_id)), res |-> "ok"]

do_handle_tx_removed(dl, cq, tx_id, ledgerOk) ==
    LET r == do_handle_tx_confirmed(dl, tx_id, "InActive", ledgerOk) IN
    IF r.res = "err" THEN [dl |-> dl, cq |-> cq, res |-> "err"]
    ELSE [dl |-> r.dl, cq |-> Append(cq, EvTxDroped(tx_id)), res |-> "ok"]

(* Variant: the first entry that fails ends the batch with its error *)
RECURSIVE Mut_ReorgLoop_aborts(_, _, _, _, _)
Mut_ReorgLoop_aborts(dl, cq, txs, i, failAt) ==
    IF i > Len(txs) THEN [dl |-> dl, cq |-> cq, res |-> "ok"]
    ELSE LET r == do_handle_tx_removed(dl, cq, txs[i], i # failAt)
         IN  IF r.res = "err" THEN r
             ELSE Mut_ReorgLoop_aborts(r.dl, r.cq, txs, i + 1, failAt)

(* failAt: index of the entry whose ledger call fails, 0 for none *)
RECURSIVE ReorgLoop(_, _, _, _, _)
ReorgLoop(dl, cq, txs, i, failAt) ==
    IF i > Len(txs) THEN [dl |-> dl, cq |-> cq, res |-> "ok"]
    ELSE LET r == do_handle_tx_removed(dl, cq, txs[i], i # failAt)
         IN  ReorgLoop(r.dl, r.cq, txs, i + 1, failAt)

(* Variant: only the first entry of the list is handled *)
Mut_report_reorg_first_only(dl, cq, txs, failAt) ==
    ReorgLoop(dl, cq, SubSeq(txs, 1, 1), 1, failAt)

do_handle_report_reorg(dl, cq, txs, failAt) == ReorgLoop(dl, cq, txs, 1, failAt)

(* self.tx.send(..).await.unwrap() with the receiving side closed: the    *)
(* first send of the handler panics; the ledger calls made before it have *)
(* taken effect.  In a reorg the first send is that of the first entry    *)
(* whose ledger call succeeded.                                           *)
send_unwrap_closed(sn, dl, cq, ev, env, handled) ==
    IF ev.type = "ReportReorg"
    THEN LET k == IF env.failAt = 1 THEN 2 ELSE 1
         IN  [sn |-> sn,
              dl |-> do_handle_report_reorg(dl, cq, SubSeq(ev.txs, 1, k), env.failAt).dl,
              cq |-> cq, res |-> "closed"]
    ELSE [sn |-> handled.sn, dl |-> handled.dl, cq |-> cq, res |-> "closed"]

(* env: [fault : {"none","ledger","rpc"}, failAt, ts, open] -- the        *)
(* outcome of the ledger and RPC calls the handler makes, the ledger      *)
(* clock, and whether the client still holds its receiver.                *)
do_handle_event(sn, dl, cq, ev, env) ==
    LET lok == env.fault # "ledger"
        rok == env.fault # "rpc"
        handled ==
    CASE ev.type = "NewTxComing" ->
           LET r == do_handle_new_tx_coming(sn, cq, ev.data, FALSE, env.ts, lok)
           IN  [sn |-> r.sn, dl |-> dl, cq |-> r.cq, res |-> r.res]
      [] ev.type = "GetBalance" ->
           [sn |-> sn, dl |-> dl, cq |-> cq, res |-> do_handle_get_balance(ev.address)]
      [] ev.type = "UpdateDelta" ->
           LET r == do_handle_update_delta(dl, ev.delta, lok)
           IN  [sn |-> sn, dl |-> r.dl, cq |-> cq, res |-> r.res]
      [] ev.type = "TxConfirmed" ->
           LET r == do_handle_tx_confirmed(dl, ev.tx_id, "Confirmed", lok)
           IN  [sn |-> sn, dl |-> r.dl, cq |-> cq, res |-> r.res]
      [] ev.type = "TxFromRestoreByTxId" ->
           LET r == do_handle_restore_tx_by_tx_id(sn, cq, ev.tx_id, env.ts, rok, lok)
           IN  [sn |-> r.sn, dl |-> dl, cq |-> r.cq, res |-> r.res]
      [] ev.type = "TxRemoved" ->
           LET r == do_handle_tx_removed(dl, cq, ev.tx_id, lok)
           IN  [sn |-> sn, dl |-> r.dl, cq |-> r.cq, res |-> r.res]
      [] ev.type = "ReportHeight" ->
           [sn |-> sn, dl |-> dl, cq |-> cq, res |-> "ok"]
      [] ev.type = "ReportReorg" ->
           LET r == do_handle_report_reorg(dl, cq, ev.txs, env.failAt)
           IN  [sn |-> sn, dl |-> r.dl, cq |-> r.cq, res |-> r.res]
    IN  IF env.open \/ handled.cq = cq THEN handled
        ELSE send_unwrap_closed(sn, dl, cq, ev, env, handled)

(* handle_event: an Err is logged and Ok returned; a panic reaches the    *)
(* panic hook, which exits the process.                                   *)
Mut_handle_event_phase_err_stops(res, ph) ==
    IF res \in {"panic", "closed", "err"} THEN "panicked" ELSE ph

handle_event_phase(res, ph) ==
    IF res \in {"panic", "closed"} THEN "panicked" ELSE ph

(* ----------------------- mempool reconciliation ----------------------- *)
Injective(s) == \A i, j \in DOMAIN s : i # j => s[i] # s[j]

Perms(S) == {s \in [1..Cardinality(S) -> S] : Injective(s)}

(* Variant: the pairs are injected in the order collected, unsorted *)
Mut_SortedPairs_unsorted(mp, append) == Perms(mp \cup append)

(* sorted_pairs: the mempool entries (map order) followed by `append`,    *)
(* stably sorted by timestamp.                                            *)
SortedPairs(mp, append) ==
    { s \in Perms(mp \cup append) :
        \A i, j \in DOMAIN s :
            i < j => /\ s[i][2] <= s[j][2]
                     /\ (s[i][2] = s[j][2] => ~(s[i] \in append /\ s[j] \in mp)) }

MempoolPairs(mem) == {<<x, mem[x]>> : x \in {y \in TxIds : mem[y] > 0}}

(* Variant: every unconsumed entry is appended, also those in the mempool *)
Mut_SyncMempoolPlan_no_filter(mem, all_unconsumed) ==
    SortedPairs(MempoolPairs(mem), all_unconsumed)

(* lines 92-112: the list the restore will inject *)
SyncMempoolPlan(mem, all_unconsumed) ==
    LET append == {p \in all_unconsumed : mem[p[1]] = 0}
    IN  SortedPairs(MempoolPairs(mem), append)

(* ----------------------- storage/db/memory.rs ------------------------- *)
(* Keys are byte strings whose first byte is the column tag *)
Keys == {<<1, 1>>, <<1, 2>>, <<2, 1>>}
Prefixes == {<<>>, <<1>>, <<2>>}
Vals == {"v1", "v2"}
None == "None"

(* The ops of a WriteBatch: a put carries a value, a delete carries None *)
Put(k, v) == [key |-> k, value |-> v]
Delete(k) == [key |-> k, value |-> None]
BatchOps == {Put(k, v) : k \in Keys, v \in Vals} \cup {Delete(k) : k \in Keys}
Batches == UNION {[1..n -> BatchOps] : n \in 0..MaxBatch}

(* MemoryDB::default(): the empty map *)
MemoryDB == [k \in {} |-> None]

set(data, key, value) ==
    [k \in DOMAIN data \cup {key} |-> IF k = key THEN value ELSE data[k]]

get(data, key) == IF key \in DOMAIN data THEN data[key] ELSE None

remove(data, key) == [k \in DOMAIN data \ {key} |-> data[k]]

(* One turn of the closure write_batch runs for each op *)
apply_op(data, op) ==
    IF op.value = None THEN remove(data, op.key) ELSE set(data, op.key, op.value)

RECURSIVE write_batch(_, _)
write_batch(data, batch) ==
    IF batch = <<>> THEN data
    ELSE write_batch(apply_op(data, Head(batch)), Tail(batch))

starts_with(k, prefix) ==
    Len(prefix) <= Len(k) /\ SubSeq(k, 1, Len(prefix)) = prefix

(* The value decoder vf is given by the values it accepts; kf is the      *)
(* identity.  The order of the result is the map's iteration order, which *)
(* HashMap leaves open: the result is read as a set.                      *)
Decoders == {Vals, {"v1"}}
iter_all(data, prefix, accepted) ==
    {<<k, data[k]>> : k \in {x \in DOMAIN data :
                               starts_with(x, prefix) /\ data[x] \in accepted}}

(* ------------------------------- state -------------------------------- *)
VARIABLES
    seen,         \* ledger, seen column: tx_id -> NoRec or [ts, executed]
    delta,        \* ledger, delta column: tx_id -> NoRec or [status, deltas]
    mempool,      \* the node's mempool: tx_id -> time, 0 when absent
    inq,          \* the processor's inbound channel
    clientq,      \* what the processor has sent on the client channel this run
    flag,         \* the restore-ready flag
    phase,        \* "boot", "restoring", "running", "stopped", "failed", "panicked"
    pending,      \* restore: the pairs still to be injected
    balReq,       \* the client's get_balance call: NoCall or [st, address, token, val]
    run,          \* number of the current process run
    zmqLeft,      \* frames the ZMQ ingest will still deliver
    cmdLeft,      \* events the client will still push
    faultsLeft,   \* ledger / RPC calls that may still fail
    faults,       \* failed ledger / RPC calls this run
    last,         \* the event handled last: [ev, res, fault, pre, n]
    newHandled,   \* tx_ids whose NewTxComing handler returned Ok this run
    restoreUnc,   \* restore: the all_unconsumed it read
    restorePlan,  \* restore: the sorted pairs it computed
    injected,     \* restore: tx_ids of the TxFromRestore events it has sent
    restoreEmits, \* tx_ids of the Transactions that restore events emitted
    bootSeen,     \* tx_ids handled as NewTxComing, without a delta, in the run before
    rxOpen,       \* the client still holds the receiver of the client channel
    arrivals,     \* tx_ids of the NewTxComing events received this run, in order
    newEmits,     \* tx_ids of the Transactions that NewTxComing events emitted
    kv            \* the MemoryDB behind a cloned handle, and the calls on it

vars == <<seen, delta, mempool, inq, clientq, flag, phase, pending, balReq, run,
          zmqLeft, cmdLeft, faultsLeft, faults, last, newHandled, restoreUnc, restorePlan,
          injected, restoreEmits, bootSeen, rxOpen, arrivals, newEmits, kv>>

ledger == <<seen, delta>>
restoreLog == <<restoreUnc, restorePlan, injected>>
budgets == <<zmqLeft, cmdLeft>>

NoLast == [ev |-> NoEvent, res |-> "ok", fault |-> "none",
           pre |-> [x \in TxIds |-> NoRec], n |-> 0]
NoCall == [st |-> "idle"]

(* A MemoryDB on which no call has been made.  `threads` is the number of *)
(* threads the holders of the handle's clones run on; `borrow` is the     *)
(* RefCell's borrow flag while write_batch runs; `obs` is the last read.  *)
NoObs == [op |-> "none"]
KvIdle == [datas |-> MemoryDB, threads |-> 1, borrow |-> FALSE, batch |-> <<>>,
           pos |-> 0, pre |-> MemoryDB, done |-> FALSE, obs |-> NoObs,
           panicked |-> FALSE, left |-> MaxKvOps]

Alive == phase \in {"boot", "restoring", "running"}

(* last, when a send met a closed channel *)
ClosedSend(ev) == [ev |-> ev, res |-> "closed", fault |-> "closed", pre |-> delta, n |-> 0]

(* The ledger is durable: a process starts on whatever earlier runs have  *)
(* stored.  Every record the handlers can write is a possible content; no *)
(* handler sets `executed`, so stored seen records carry executed=FALSE.  *)
SeenRecords == [ts : Time, executed : {FALSE}]
DeltaRecords(x) == [status : {"Active", "Confirmed", "InActive"}, deltas : {DeltaOf(x)}]
StoredSeen == [TxIds -> {NoRec} \cup SeenRecords]
StoredDelta == {dl \in [TxIds -> {NoRec} \cup UNION {DeltaRecords(x) : x \in TxIds}] :
                   \A x \in TxIds : dl[x] \in {NoRec} \cup DeltaRecords(x)}

EmptySeen == [x \in TxIds |-> NoRec]
EmptyDelta == [x \in TxIds |-> NoRec]
EmptyMempool == [x \in TxIds |-> 0]

(* A process start: new channels, the flag down, the stored ledger *)
Boot ==
    /\ inq = <<>>
    /\ clientq = <<>>
    /\ flag = FALSE
    /\ phase = "boot"
    /\ pending = <<>>
    /\ balReq = NoCall
    /\ run = 1
    /\ faultsLeft = MaxFaults
    /\ faults = 0
    /\ last = NoLast
    /\ newHandled = {}
    /\ restoreUnc = {}
    /\ restorePlan = <<>>
    /\ injected = <<>>
    /\ restoreEmits = <<>>
    /\ bootSeen = {}
    /\ rxOpen = TRUE
    /\ arrivals = <<>>
    /\ newEmits = <<>>

(* Starts that differ in what was seen and what the node's mempool holds *)
InitIngest ==
    /\ seen \in StoredSeen
    /\ delta = EmptyDelta
    /\ mempool \in [TxIds -> 0..MaxTime]
    /\ zmqLeft = MaxZmq
    /\ cmdLeft = 0
    /\ kv = KvIdle
    /\ Boot

(* Starts that differ in the deltas recorded *)
InitLedger ==
    /\ seen = EmptySeen
    /\ delta \in StoredDelta
    /\ mempool = EmptyMempool
    /\ zmqLeft = 0
    /\ cmdLeft = MaxCmd
    /\ kv = KvIdle
    /\ Boot

(* Starts on an empty ledger, T1 in the mempool, in which both the ingest *)
(* and the client act                                                     *)
InitMixed ==
    /\ seen = EmptySeen
    /\ delta = EmptyDelta
    /\ mempool \in {m \in [TxIds -> 0..MaxTime] : m["T1"] = 1}
    /\ zmqLeft = MixZmq
    /\ cmdLeft = MixCmd
    /\ kv = KvIdle
    /\ Boot

Init == InitIngest \/ InitLedger \/ InitMixed

(* Outcomes of the calls a step makes: none fails, or (within the fault   *)
(* budget) one of them does.                                              *)
FaultChoices(kinds) == {"none"} \cup (IF faultsLeft > 0 THEN kinds ELSE {})

(* do_handle_sync_mempool, lines 90-112: read the ledger and the mempool  *)
RestoreStart ==
    /\ phase = "boot"
    /\ \E f \in FaultChoices({"ledger", "rpc"}) :
         IF f # "none"
         THEN /\ phase' = "failed"
              /\ faults' = faults + 1
              /\ faultsLeft' = faultsLeft - 1
              /\ UNCHANGED <<pending, restoreLog>>
         ELSE LET all_unconsumed == get_all_un_consumed_txs(seen, delta) IN
              \E txs \in SyncMempoolPlan(mempool, all_unconsumed) :
                /\ pending' = txs
                /\ restoreUnc' = all_unconsumed
                /\ restorePlan' = txs
                /\ injected' = <<>>
                /\ phase' = "restoring"
                /\ UNCHANGED <<faults, faultsLeft>>
    /\ UNCHANGED <<ledger, mempool, kv, inq, clientq, flag, balReq, run, budgets,
                   last, newHandled, restoreEmits, bootSeen, rxOpen, arrivals, newEmits>>

(* lines 114-121: one iteration of the injection loop *)
RestoreSend ==
    /\ phase = "restoring"
    /\ pending # <<>>
    /\ inq' = Append(inq, TxFromRestoreByTxId(Head(pending)[1]))
    /\ injected' = Append(injected, Head(pending)[1])
    /\ pending' = Tail(pending)
    /\ UNCHANGED <<ledger, mempool, kv, clientq, flag, phase, balReq, run, budgets,
                   faultsLeft, faults, last, newHandled, restoreUnc, restorePlan,
                   restoreEmits, bootSeen, rxOpen, arrivals, newEmits>>

(* Variant: the flag is raised while events are still to be injected *)
Mut_RestoreFinish_early ==
    /\ phase = "restoring"
    /\ flag' = TRUE
    /\ phase' = "running"
    /\ UNCHANGED <<ledger, mempool, kv, inq, clientq, pending, balReq, run, budgets,
                   faultsLeft, faults, last, newHandled, restoreLog, restoreEmits,
                   bootSeen, rxOpen, arrivals, newEmits>>

(* lines 122-124: raise the ready flag; before_start returns *)
RestoreFinish ==
    /\ phase = "restoring"
    /\ pending = <<>>
    /\ flag' = TRUE
    /\ phase' = "running"
    /\ UNCHANGED <<ledger, mempool, kv, inq, clientq, pending, balReq, run, budgets,
                   faultsLeft, faults, last, newHandled, restoreLog, restoreEmits, bootSeen, rxOpen, arrivals, newEmits>>

(* Variant: the channel hands out the newest event first *)
Mut_ZmqDeliver_lifo ==
    /\ Alive
    /\ zmqLeft > 0
    /\ \E data \in RawFrames :
         /\ inq' = <<NewTxComing(data)>> \o inq
         /\ arrivals' = IF parse_zmq_data(data).panic THEN arrivals
                        ELSE Append(arrivals, parse_zmq_data(data).tx_id)
    /\ zmqLeft' = zmqLeft - 1
    /\ UNCHANGED <<ledger, mempool, kv, clientq, flag, phase, pending, balReq, run,
                   cmdLeft, faultsLeft, faults, last, newHandled, restoreLog, restoreEmits,
                   bootSeen, rxOpen, newEmits>>

(* The ZMQ ingest sends NewTxComing(frame) into the processor's channel *)
ZmqDeliver ==
    /\ Alive
    /\ zmqLeft > 0
    /\ \E data \in RawFrames :
         /\ inq' = Append(inq, NewTxComing(data))
         /\ arrivals' = IF parse_zmq_data(data).panic THEN arrivals
                        ELSE Append(arrivals, parse_zmq_data(data).tx_id)
    /\ zmqLeft' = zmqLeft - 1
    /\ UNCHANGED <<ledger, mempool, kv, clientq, flag, phase, pending, balReq, run,
                   cmdLeft, faultsLeft, faults, last, newHandled, restoreLog, restoreEmits,
                   bootSeen, rxOpen, newEmits>>

(* push_event / update_delta / report_height / report_reorg:              *)
(* self.tx.send(event).unwrap().  Once the processor's loop has returned  *)
(* its receiver is dropped and the send fails.                            *)
ClientPush ==
    /\ Alive \/ phase = "stopped"
    /\ cmdLeft > 0
    /\ \E ev \in ClientCommands :
         IF Alive
         THEN inq' = Append(inq, ev) /\ UNCHANGED <<phase, last>>
         ELSE inq' = inq /\ phase' = "panicked" /\ last' = ClosedSend(ev)
    /\ cmdLeft' = cmdLeft - 1
    /\ UNCHANGED <<ledger, mempool, kv, clientq, flag, pending, balReq, run,
                   zmqLeft, faultsLeft, faults, newHandled, restoreLog, restoreEmits,
                   bootSeen, rxOpen, arrivals, newEmits>>

(* The embedder drops every receiver of the client channel *)
ClientDropRx ==
    /\ Alive
    /\ rxOpen
    /\ cmdLeft > 0
    /\ rxOpen' = FALSE
    /\ cmdLeft' = cmdLeft - 1
    /\ UNCHANGED <<ledger, mempool, kv, inq, clientq, flag, phase, pending, balReq, run,
                   zmqLeft, faultsLeft, faults, last, newHandled, restoreLog,
                   restoreEmits, bootSeen, arrivals, newEmits>>

(* The shutdown signal: the run loop returns and drops its receiver.      *)
(* Followed while the client can still act: with a silent client a        *)
(* stopped processor has no behaviour left but a restart.                 *)
Shutdown ==
    /\ phase = "running"
    /\ cmdLeft > 0
    /\ phase' = "stopped"
    /\ UNCHANGED <<ledger, mempool, kv, inq, clientq, flag, pending, balReq, run, budgets,
                   faultsLeft, faults, last, newHandled, restoreLog, restoreEmits,
                   bootSeen, rxOpen, arrivals, newEmits>>

(* do_get_balance: send GetBalance(address, reply), then block on reply *)
ClientGetBalance ==
    /\ Alive
    /\ cmdLeft > 0
    /\ balReq.st = "idle"
    /\ \E a \in Addresses, t \in Tokens :
         /\ inq' = Append(inq, GetBalance(a))
         /\ balReq' = [st |-> "waiting", address |-> a, token |-> t, val |-> 0]
    /\ cmdLeft' = cmdLeft - 1
    /\ UNCHANGED <<ledger, mempool, kv, clientq, flag, phase, pending, run,
                   zmqLeft, faultsLeft, faults, last, newHandled, restoreLog, restoreEmits,
                   bootSeen, rxOpen, arrivals, newEmits>>

EnvCalls(ev) ==
    CASE ev.type \in {"NewTxComing"} ->
           IF parse_zmq_data(ev.data).panic
           THEN {[fault |-> "none", failAt |-> 0, ts |-> 1]}
           ELSE [fault : FaultChoices({"ledger"}), failAt : {0}, ts : Time]
      [] ev.type = "TxFromRestoreByTxId" ->
           [fault : FaultChoices({"ledger", "rpc"}), failAt : {0}, ts : Time]
      [] ev.type \in {"UpdateDelta", "TxConfirmed", "TxRemoved"} ->
           [fault : FaultChoices({"ledger"}), failAt : {0}, ts : {1}]
      [] ev.type = "ReportReorg" ->
           {[fault |-> "none", failAt |-> 0, ts |-> 1]}
           \cup [fault : FaultChoices({"ledger"}) \ {"none"},
                 failAt : 1..Len(ev.txs), ts : {1}]
      [] OTHER -> {[fault |-> "none", failAt |-> 0, ts |-> 1]}

EnvChoices(ev) ==
    {[fault |-> e.fault, failAt |-> e.failAt, ts |-> e.ts, open |-> rxOpen] :
        e \in EnvCalls(ev)}

(* Variant: the loop dispatches events while before_start is injecting *)
Mut_LoopStarted_during_restore == phase \in {"restoring", "running"}

(* The harness enters the run loop when before_start has returned Ok *)
LoopStarted == phase = "running"

(* Component::handle_event on the head of the inbound channel *)
HandleEvent ==
    /\ LoopStarted
    /\ inq # <<>>
    /\ LET ev == Head(inq) IN
       \E env \in EnvChoices(ev) :
         LET out == do_handle_event(seen, delta, clientq, ev, env) IN
         /\ seen' = out.sn
         /\ delta' = out.dl
         /\ clientq' = out.cq
         /\ inq' = Tail(inq)
         /\ phase' = handle_event_phase(out.res, phase)
         /\ faults' = faults + (IF env.fault = "none" THEN 0 ELSE 1)
         /\ faultsLeft' = faultsLeft - (IF env.fault = "none" THEN 0 ELSE 1)
         /\ last' = [ev |-> ev, res |-> out.res,
                     fault |-> IF out.res = "closed" THEN "closed" ELSE env.fault,
                     pre |-> delta, n |-> Len(out.cq) - Len(clientq)]
         /\ newHandled' =
              IF ev.type = "NewTxComing" /\ out.res = "ok"
              THEN newHandled \cup {parse_zmq_data(ev.data).tx_id}
              ELSE newHandled
         /\ restoreEmits' =
              IF ev.type = "TxFromRestoreByTxId" /\ Len(out.cq) > Len(clientq)
              THEN Append(restoreEmits, ev.tx_id)
              ELSE restoreEmits
         /\ newEmits' =
              IF ev.type = "NewTxComing" /\ Len(out.cq) > Len(clientq)
              THEN Append(newEmits, parse_zmq_data(ev.data).tx_id)
              ELSE newEmits
    /\ UNCHANGED <<mempool, kv, flag, pending, balReq, run, budgets, restoreLog,
                   bootSeen, rxOpen, arrivals>>

(* The process stops (crash, panic or shutdown) and is started again: the *)
(* channels and the flag are new, the ledger is what was stored.          *)
Restart ==
    /\ run < MaxRuns
    /\ run' = run + 1
    /\ inq' = <<>>
    /\ clientq' = <<>>
    /\ flag' = FALSE
    /\ phase' = "boot"
    /\ pending' = <<>>
    /\ balReq' = NoCall
    /\ faults' = 0
    /\ last' = NoLast
    /\ newHandled' = {}
    /\ restoreUnc' = {}
    /\ restorePlan' = <<>>
    /\ injected' = <<>>
    /\ restoreEmits' = <<>>
    /\ bootSeen' = {x \in newHandled : delta[x] = NoRec}
    /\ rxOpen' = TRUE
    /\ arrivals' = <<>>
    /\ newEmits' = <<>>
    /\ UNCHANGED <<ledger, mempool, kv, budgets, faultsLeft>>

Next ==
    \/ RestoreStart
    \/ RestoreSend
    \/ RestoreFinish
    \/ ZmqDeliver
    \/ ClientPush
    \/ ClientGetBalance
    \/ ClientDropRx
    \/ Shutdown
    \/ HandleEvent
    \/ Restart

Spec == Init /\ [][Next]_vars

(* do_handle_new_tx_coming as a function of what the ledger returns: the  *)
(* running processor has one NewTxComing or TxFromRestoreByTxId to handle *)
(* over a seen column in which any record may be marked executed.         *)
AnySeen == [TxIds -> {NoRec} \cup [ts : Time, executed : BOOLEAN]]

PolicyEvents ==
    {NewTxComing(serialize(Transaction(x))) : x \in TxIds}
    \cup {TxFromRestoreByTxId(x) : x \in TxIds}

PolicyInit ==
    /\ seen \in AnySeen
    /\ delta = EmptyDelta
    /\ mempool = EmptyMempool
    /\ inq \in {<<ev>> : ev \in PolicyEvents}
    /\ clientq = <<>>
    /\ flag = TRUE
    /\ phase = "running"
    /\ pending = <<>>
    /\ balReq = NoCall
    /\ run = 1
    /\ zmqLeft = 0
    /\ cmdLeft = 0
    /\ faultsLeft = MaxFaults
    /\ faults = 0
    /\ last = NoLast
    /\ newHandled = {}
    /\ restoreUnc = {}
    /\ restorePlan = <<>>
    /\ injected = <<>>
    /\ restoreEmits = <<>>
    /\ bootSeen = {}
    /\ rxOpen = TRUE
    /\ arrivals = <<>>
    /\ newEmits = <<>>
    /\ kv = KvIdle

PolicyNext == HandleEvent

PolicySpec == PolicyInit /\ [][PolicyNext]_vars

(* The processor's task is scheduled as long as it has something to do:   *)
(* before_start runs to its end and the run loop takes the head of a      *)
(* non-empty channel.  The environment (node, client, restarts) is free.  *)
ProcessorFairness ==
    /\ WF_vars(RestoreStart)
    /\ WF_vars(RestoreSend)
    /\ WF_vars(RestoreFinish)
    /\ WF_vars(HandleEvent)

LiveSpec == InitMixed /\ [][Next]_vars /\ ProcessorFairness

(* ------------------ the MemoryDB under its holders -------------------- *)
(* MemoryDB is Clone, and a clone shares the map (Rc).  It is declared    *)
(* Send and Sync, so clones may be held on several threads.  On one       *)
(* thread a call runs to its end before the next call starts.  On two     *)
(* threads the borrow flag and the map are read and written without       *)
(* synchronisation: a read that overlaps write_batch either finds the     *)
(* flag set, and panics in borrow_mut, or misses it and reads the map as  *)
(* it is at that moment.                                                  *)
procVars == <<seen, delta, mempool, inq, clientq, flag, phase, pending, balReq, run,
              zmqLeft, cmdLeft, faultsLeft, faults, last, newHandled, restoreUnc,
              restorePlan, injected, restoreEmits, bootSeen, rxOpen, arrivals, newEmits>>

KvInit ==
    /\ kv \in {[KvIdle EXCEPT !.threads = t] : t \in {1, 2}}
    /\ seen = EmptySeen
    /\ delta = EmptyDelta
    /\ mempool = EmptyMempool
    /\ zmqLeft = 0
    /\ cmdLeft = 0
    /\ Boot

KvCanStart == ~kv.panicked /\ kv.left > 0

(* What a read returns on a given content of the map *)
Answer(o, data) ==
    IF o.op = "get" THEN get(data, o.arg) ELSE iter_all(data, o.arg[1], o.arg[2])

(* A read by the holder of a clone, op and arg naming the call: what it   *)
(* leaves behind                                                          *)
ReadOutcomes(op, arg) ==
    LET o == [op |-> op, arg |-> arg]
        read == [kv EXCEPT
                   !.left = @ - 1,
                   !.obs = [op |-> op, arg |-> arg,
                            result |-> Answer(o, kv.datas),
                            pre |-> IF kv.borrow THEN kv.pre ELSE kv.datas,
                            batch |-> IF kv.borrow THEN kv.batch ELSE <<>>]]
    IN  IF kv.borrow THEN {[kv EXCEPT !.panicked = TRUE], read} ELSE {read}

KvSet(key, value) ==
    /\ KvCanStart
    /\ ~kv.borrow
    /\ kv' = [kv EXCEPT !.datas = set(kv.datas, key, value),
                        !.done = FALSE, !.left = @ - 1]
    /\ UNCHANGED procVars

KvGet(key) ==
    /\ KvCanStart
    /\ kv.threads = 1 => ~kv.borrow
    /\ kv' \in ReadOutcomes("get", key)
    /\ UNCHANGED procVars

KvIterAll(prefix, accepted) ==
    /\ KvCanStart
    /\ kv.threads = 1 => ~kv.borrow
    /\ kv' \in ReadOutcomes("iter_all", <<prefix, accepted>>)
    /\ UNCHANGED procVars

(* write_batch: borrow_mut, one turn of the closure per op, the borrow    *)
(* dropped at the return                                                  *)
KvWriteBatchBegin(batch) ==
    /\ KvCanStart
    /\ ~kv.borrow
    /\ kv' = [kv EXCEPT !.borrow = TRUE, !.batch = batch, !.pos = 0,
                        !.pre = kv.datas, !.done = FALSE, !.left = @ - 1]
    /\ UNCHANGED procVars

KvWriteBatchOp ==
    /\ ~kv.panicked
    /\ kv.borrow
    /\ kv.pos < Len(kv.batch)
    /\ kv' = [kv EXCEPT !.datas = apply_op(kv.datas, kv.batch[kv.pos + 1]),
                        !.pos = @ + 1]
    /\ UNCHANGED procVars

KvWriteBatchEnd ==
    /\ ~kv.panicked
    /\ kv.borrow
    /\ kv.pos = Len(kv.batch)
    /\ kv' = [kv EXCEPT !.borrow = FALSE, !.done = TRUE]
    /\ UNCHANGED procVars

KvNext ==
    \/ \E k \in Keys, v \in Vals : KvSet(k, v)
    \/ \E k \in Keys : KvGet(k)
    \/ \E p \in Prefixes, acc \in Decoders : KvIterAll(p, acc)
    \/ \E b \in Batches : KvWriteBatchBegin(b)
    \/ KvWriteBatchOp
    \/ KvWriteBatchEnd

KvSpec == KvInit /\ [][KvNext]_vars

(* ============================== claims =============================== *)
CountTx(cq, x) == CountIn(cq, EvTransaction(Transaction(x)))

(* The run has restored and handled everything it received *)
Quiescent == phase = "running" /\ inq = <<>>

(* C1: when NewTxComing(b) for tx_id x has been handled N >= 1 times in a *)
(* run (here: a run in which no ledger or RPC call failed) and the run    *)
(* has handled all it received, exactly one Transaction(x) is on the      *)
(* client queue of that run.                                              *)
C1_ExactlyOneTransactionPerRun ==
    (Quiescent /\ faults = 0) =>
        \A x \in newHandled : CountTx(clientq, x) = 1

(* C2: once a GetBalance request for (a, t) has been handled, the reply   *)
(* the client receives is the sum of the amounts for (a, t) over the      *)
(* recorded deltas that are Active or Confirmed.                          *)
C2_GetBalanceRepliesLedgerSum ==
    last.ev.type = "GetBalance" =>
        /\ balReq.st = "replied"
        /\ balReq.val = get_balance(delta, balReq.address, balReq.token)

C4_AtMostOneTransactionPerRun ==
    \A x \in TxIds : CountTx(clientq, x) <= 1

(* C5: a restore that has completed has injected exactly one              *)
(* TxFromRestore per tx_id of the union of the mempool tx_ids and the     *)
(* ledger-unconsumed tx_ids: none omitted, none twice.                    *)
UnionIds == {x \in TxIds : mempool[x] > 0} \cup {p[1] : p \in restoreUnc}

C5_RestoreInjectsUnionOnce ==
    /\ Injective(injected)
    /\ Range(injected) \subseteq UnionIds
    /\ flag => Range(injected) = UnionIds

(* C5 witness: a completed restore with T1 in both sets and T2 in the     *)
(* ledger only.                                                           *)
C5_Witness ==
    /\ flag
    /\ mempool["T1"] > 0 /\ mempool["T2"] = 0
    /\ {p[1] : p \in restoreUnc} = {"T1", "T2"}
    /\ Len(injected) = 2

(* C6: the Transactions that TxFromRestore events put on the client queue *)
(* appear in nondecreasing timestamp order, the timestamp of a tx_id      *)
(* being its mempool time when it is in the mempool and its ledger        *)
(* first_seen_ts otherwise.                                               *)
RestoreTs(x) == IF mempool[x] > 0 THEN mempool[x] ELSE seen[x].ts

C6_RestoreEmitsInTimestampOrder ==
    \A i, j \in DOMAIN restoreEmits :
        i < j => RestoreTs(restoreEmits[i]) <= RestoreTs(restoreEmits[j])

(* C6 witness: mempool {T1: 1, T2: 2}, T1 seen and not executed; the      *)
(* client got Transaction(T1), then Transaction(T2), from the restore.    *)
C6_Witness ==
    /\ mempool = [x \in TxIds |-> IF x = "T1" THEN 1 ELSE 2]
    /\ "T1" \in {p[1] : p \in restoreUnc}
    /\ restoreEmits = <<"T1", "T2">>
    /\ clientq = <<EvTransaction(Transaction("T1")), EvTransaction(Transaction("T2"))>>

(* The reorg handled last, and what ReportReorg([x]) does from the state  *)
(* it was handled in.                                                     *)
PreClientq == SubSeq(clientq, 1, Len(clientq) - last.n)
SingleReorg(x) == do_handle_report_reorg(last.pre, PreClientq, <<x>>, 0)
TripleHandled(x) ==
    /\ last.ev = ReportReorg(<<x, x, x>>)
    /\ last.fault = "none"

(* C7 amended: handling ReportReorg([x,x,x]) leaves the ledger that       *)
(* handling ReportReorg([x]) leaves, and puts three TxDroped(x) on the    *)
(* client queue where ReportReorg([x]) puts one.                          *)
C7_ReorgTripleSameLedger ==
    \A x \in TxIds : TripleHandled(x) =>
        /\ delta = SingleReorg(x).dl
        /\ \A a \in Addresses, t \in Tokens :
             get_balance(delta, a, t) = get_balance(SingleReorg(x).dl, a, t)
        /\ clientq = SingleReorg(x).cq \o <<EvTxDroped(x), EvTxDroped(x)>>

(* C7 witness: ReportReorg([T1,T1,T1]) was handled on an Active delta *)
C7_Witness ==
    /\ TripleHandled("T1")
    /\ last.pre["T1"] # NoRec /\ last.pre["T1"].status = "Active"
    /\ delta["T1"].status = "InActive"
    /\ last.n = 3

(* C7 as claimed: handling ReportReorg([x,x,x]) has the effect of         *)
(* handling ReportReorg([x]): the same ledger and the same client events. *)
C7_ReorgTripleSameEffect ==
    \A x \in TxIds : TripleHandled(x) =>
        /\ delta = SingleReorg(x).dl
        /\ clientq = SingleReorg(x).cq

(* C8: a tx_id has at most one delta record, so at most one Active one;   *)
(* handling TxConfirmed (TxRemoved) for a tx_id whose delta is Active     *)
(* makes that record Confirmed (InActive); no handler deletes a record.   *)
StatusOf(dl, x) == IF dl[x] = NoRec THEN "none" ELSE dl[x].status

C8_ActiveBecomesTerminal ==
    /\ \A x \in TxIds :
         Cardinality({st \in {"Active", "Confirmed", "InActive"} :
                         StatusOf(delta, x) = st}) <= 1
    /\ \A x \in TxIds :
         (last.res = "ok" /\ StatusOf(last.pre, x) = "Active") =>
            /\ last.ev = TxConfirmed(x) => StatusOf(delta, x) = "Confirmed"
            /\ last.ev = TxRemoved(x) => StatusOf(delta, x) = "InActive"
    /\ \A x \in TxIds :
         last.pre[x] # NoRec =>
            delta[x] # NoRec /\ delta[x].deltas = last.pre[x].deltas

(* C8 witness: TxRemoved(T1) was handled on an Active delta *)
C8_Witness ==
    /\ last.ev = TxRemoved("T1") /\ last.res = "ok"
    /\ StatusOf(last.pre, "T1") = "Active"
    /\ StatusOf(delta, "T1") = "InActive"

(* C9: once the delta record of a tx_id is Confirmed or InActive, no step *)
(* changes it.                                                            *)
C9_TerminalStatusStays ==
    [][\A x \in TxIds : IsTerminal(delta[x]) => delta'[x] = delta[x]]_vars

(* C9 witness: UpdateDelta for T1 was handled while the record of T1 was  *)
(* Confirmed, and the record is still Confirmed.                          *)
C9_Witness ==
    /\ last.ev.type = "UpdateDelta" /\ last.ev.delta.tx_id = "T1"
    /\ last.res = "ok"
    /\ StatusOf(last.pre, "T1") = "Confirmed"
    /\ StatusOf(delta, "T1") = "Confirmed"

(* The reorg of T1 and T2 handled last, on two Confirmed deltas *)
BatchHandled ==
    /\ last.ev = ReportReorg(<<"T1", "T2">>)
    /\ last.fault = "none"
    /\ StatusOf(last.pre, "T1") = "Confirmed"
    /\ StatusOf(last.pre, "T2") = "Confirmed"

NoFault(ts) == [fault |-> "none", failAt |-> 0, ts |-> ts, open |-> TRUE]
Applied(sn, dl, ev, ts) == do_handle_event(sn, dl, <<>>, ev, NoFault(ts))

SameBalances(d1, d2) ==
    \A a \in Addresses, t \in Tokens : get_balance(d1, a, t) = get_balance(d2, a, t)

(* C11: from the ledger of any reachable state, a second                  *)
(* seen_and_store_txs for a tx returns the stored seen-state and leaves   *)
(* the seen column as the first left it; handling the same UpdateDelta,   *)
(* TxConfirmed or TxRemoved a second time leaves the delta records and    *)
(* every balance as the first handling left them.                         *)
C11_LedgerOperationsIdempotent ==
    /\ \A x \in TxIds, t1, t2 \in Time :
         LET r1 == seen_and_store_txs(seen, x, t1)
             r2 == seen_and_store_txs(r1.seen, x, t2)
         IN  /\ r2.seen = r1.seen
             /\ r2.state = SeenSt(r1.seen[x].executed)
    /\ \A ev \in {UpdateDelta(d) : d \in TransactionDelta}
                 \cup {TxConfirmed(x) : x \in TxIds} \cup {TxRemoved(x) : x \in TxIds} :
         LET once == Applied(seen, delta, ev, 1)
             twice == Applied(once.sn, once.dl, ev, 1)
         IN  /\ twice.sn = once.sn
             /\ twice.dl = once.dl
             /\ SameBalances(twice.dl, once.dl)
    /\ (last.res = "ok" /\ last.ev.type \in {"UpdateDelta", "TxConfirmed", "TxRemoved"})
          => Applied(seen, delta, last.ev, 1).dl = delta

(* C11 witness: UpdateDelta for T1 was handled on a ledger without a      *)
(* record of T1 and stored it Active; handling it again changes nothing.  *)
C11_Witness ==
    /\ last.ev = UpdateDelta([tx_id |-> "T1", deltas |-> DeltaOf("T1")])
    /\ last.res = "ok"
    /\ last.pre["T1"] = NoRec
    /\ delta["T1"] = [status |-> "Active", deltas |-> DeltaOf("T1")]
    /\ get_balance(delta, "A", "Tok") >= 3
    /\ Applied(seen, delta, last.ev, 1).dl = delta

(* C12: when TxRemoved(x) is handled, no call failing, for an x without a *)
(* delta record, the handler returns Ok, puts exactly one TxDroped(x) on  *)
(* the client queue, creates no delta record and changes no balance.      *)
C12_DropBeforeDelta ==
    \A x \in TxIds :
        (last.ev = TxRemoved(x) /\ last.fault = "none" /\ last.pre[x] = NoRec) =>
            /\ last.res = "ok"
            /\ last.n = 1
            /\ clientq[Len(clientq)] = EvTxDroped(x)
            /\ CountIn(clientq, EvTxDroped(x)) = CountIn(PreClientq, EvTxDroped(x)) + 1
            /\ delta[x] = NoRec
            /\ delta = last.pre
            /\ SameBalances(delta, last.pre)

(* C12 witness: T2 was emitted to the client, no delta was recorded, and  *)
(* TxRemoved(T2) was handled.                                             *)
C12_Witness ==
    /\ last.ev = TxRemoved("T2") /\ last.fault = "none"
    /\ clientq = <<EvTransaction(Transaction("T2")), EvTxDroped("T2")>>
    /\ delta = EmptyDelta

(* C13: when the processor has put Transaction(x) on the client queue and *)
(* finished handling that event, the seen record of x has executed set.   *)
C13_EmittedIsExecuted ==
    \A x \in TxIds :
        CountTx(clientq, x) > 0 => seen[x] # NoRec /\ seen[x].executed

(* C15: after a NewTxComing whose bytes do not decode was handled, the    *)
(* processor has not crashed: the event was dropped, the ledger and the   *)
(* client queue are as before, and the processor goes on running.         *)
C15_DecodeFailureSkipped ==
    last.ev = NewTxComing(Malformed) =>
        /\ last.res \in {"ok", "err"}
        /\ phase \in {"running", "stopped"}
        /\ delta = last.pre
        /\ last.n = 0

(* C16: a send that meets a closed channel (the processor sending a       *)
(* ClientEvent, the client pushing an event) is a shutdown signal: the    *)
(* component has exited cleanly, it has not crashed.                      *)
C16_ClosedChannelExitsCleanly ==
    last.res = "closed" => phase # "panicked"

(* C14: a get_balance call whose GetBalance event is at the head of the   *)
(* running processor's channel eventually returns to the caller (unless   *)
(* the processor is shut down or the process restarted first).            *)
C14_GetBalanceCallReturns ==
    (/\ balReq.st = "waiting"
     /\ phase = "running"
     /\ inq # <<>> /\ Head(inq).type = "GetBalance")
        ~> (balReq.st \in {"replied", "idle"} \/ phase = "stopped")

(* C19: a restore that failed is attempted again, and since the calls     *)
(* eventually succeed the ready flag is eventually set.                   *)
C19_FailedRestoreIsRetried ==
    (phase = "failed") ~> flag

(* Transactions the duplicate policy emits for a seen-state and an origin *)
PolicyEmits(st, from_restore) ==
    IF ~st.seen THEN 1
    ELSE IF st.executed THEN 0
    ELSE IF from_restore THEN 1 ELSE 0

(* C17: a step that handles NewTxComing or TxFromRestoreByTxId for x, no  *)
(* call failing, appends Transaction(x) to the client queue when the      *)
(* ledger returns Fresh, nothing when it returns Seen{executed=true},     *)
(* and for Seen{executed=false} Transaction(x) if and only if the event   *)
(* came from restore; it never appends more than one.                     *)
C17_DuplicatePolicy ==
    [][\A x \in TxIds :
         (/\ inq # <<>>
          /\ inq' = Tail(inq)
          /\ Head(inq) \in {NewTxComing(serialize(Transaction(x))), TxFromRestoreByTxId(x)}
          /\ last'.res = "ok" /\ last'.fault = "none")
         => LET st == seen_and_store_txs(seen, x, 1).state
                k == PolicyEmits(st, Head(inq).type = "TxFromRestoreByTxId")
            IN  /\ clientq' = IF k = 1
                              THEN Append(clientq, EvTransaction(Transaction(x)))
                              ELSE clientq
                /\ Len(clientq') - Len(clientq) <= 1]_vars

(* C17 witness: TxFromRestoreByTxId(T1) was handled over a record of T1   *)
(* marked executed, and nothing was emitted.                              *)
C17_Witness ==
    /\ last.ev = TxFromRestoreByTxId("T1")
    /\ last.res = "ok" /\ last.fault = "none"
    /\ seen["T1"] # NoRec /\ seen["T1"].executed
    /\ clientq = <<>>

(* C18: the ready flag is down when the process starts; whenever it is up *)
(* the restore has sent a TxFromRestoreByTxId for every entry of its list *)
(* and has none left to send; after a failed restore it is down; within a *)
(* process run it is never lowered.                                       *)
C18_ReadyFlagAfterInjection ==
    /\ ~flag
    /\ [](flag => /\ pending = <<>>
                  /\ injected = [i \in DOMAIN restorePlan |-> restorePlan[i][1]])
    /\ [](phase \in {"boot", "restoring", "failed"} => ~flag)
    /\ [][(flag /\ run' = run) => flag']_vars

(* C18 witness: a restore of two entries was injected, the flag is up and *)
(* the processor has since handled them.                                  *)
C18_Witness ==
    /\ flag
    /\ Len(restorePlan) = 2
    /\ Len(injected) = 2
    /\ inq = <<>>
    /\ last.ev.type = "TxFromRestoreByTxId"

(* C20: after a handler returned an error (a failed ledger call, a failed *)
(* get_raw_transaction) the processor is in its loop, the event left no   *)
(* trace in the delta records or on the client queue, and the next event  *)
(* of the channel, if any, can be handled.                                *)
C20_HandlerErrorDoesNotStop ==
    last.res = "err" =>
        /\ phase \in {"running", "stopped"}
        /\ delta = last.pre
        /\ last.n = 0
        /\ (phase = "running" /\ inq # <<>>) => ENABLED HandleEvent

(* C20 witness: the handling of TxFromRestoreByTxId(T1) failed, and the   *)
(* processor is running with T2's event next in its channel.              *)
C20_Witness ==
    /\ last.res = "err"
    /\ last.ev = TxFromRestoreByTxId("T1")
    /\ phase = "running"
    /\ inq = <<TxFromRestoreByTxId("T2")>>
    /\ clientq = <<>>

(* Handling TxRemoved(txs[i]), for i = from..Len(txs) in turn, as events  *)
(* of their own; the ledger call of entry failAt fails.                   *)
RECURSIVE EachRemoved(_, _, _, _, _)
EachRemoved(dl, cq, txs, from, failAt) ==
    IF from > Len(txs) THEN [dl |-> dl, cq |-> cq]
    ELSE LET env == [fault |-> IF from = failAt THEN "ledger" ELSE "none",
                     failAt |-> 0, ts |-> 1, open |-> TRUE]
             r == do_handle_event(EmptySeen, dl, cq, TxRemoved(txs[from]), env)
         IN  EachRemoved(r.dl, r.cq, txs, from + 1, failAt)

(* C21: handling ReportReorg(list), the client holding its receiver,      *)
(* returns Ok and leaves the delta records and the client queue that      *)
(* handling TxRemoved for every entry in list order leaves, the entry     *)
(* whose ledger call failed (if one did) being the only one without       *)
(* effect.                                                                *)
C21_ReorgHandlesEveryEntry ==
    (last.ev.type = "ReportReorg" /\ last.res # "closed") =>
        /\ last.res = "ok"
        /\ \E f \in 0..Len(last.ev.txs) :
             /\ (f = 0) <=> (last.fault = "none")
             /\ LET each == EachRemoved(last.pre, PreClientq, last.ev.txs, 1, f)
                IN  delta = each.dl /\ clientq = each.cq
        /\ last.n = Len(last.ev.txs) - (IF last.fault = "none" THEN 0 ELSE 1)

(* C21 witness: ReportReorg([T1,T2]) on two Active deltas, the ledger     *)
(* call for T1 failing: T1 is still Active, T2 is InActive and one        *)
(* TxDroped, that of T2, was emitted.                                     *)
C21_Witness ==
    /\ last.ev = ReportReorg(<<"T1", "T2">>)
    /\ last.fault = "ledger" /\ last.res = "ok"
    /\ StatusOf(last.pre, "T1") = "Active" /\ StatusOf(last.pre, "T2") = "Active"
    /\ StatusOf(delta, "T1") = "Active" /\ StatusOf(delta, "T2") = "InActive"
    /\ last.n = 1
    /\ clientq[Len(clientq)] = EvTxDroped("T2")

(* A step in which the processor takes the head of its inbound channel *)
HandleStep == inq # <<>> /\ inq' = Tail(inq) /\ run' = run

IsRestoreEvent(e) == e.type = "TxFromRestoreByTxId"

(* C22: handle_event is invoked only when before_start has completed     *)
(* (every restore event sent, the flag up); and with the flag up nothing  *)
(* but the tail of the inbound channel changes by a send, and no restore  *)
(* event is sent, so every restore event is ahead of every event sent     *)
(* after the flag was raised.                                             *)
C22_BeforeStartCompletesFirst ==
    /\ [][HandleStep => (flag /\ pending = <<>> /\ Len(injected) = Len(restorePlan))]_vars
    /\ [][(flag /\ run' = run) =>
            \/ inq' = inq
            \/ (inq # <<>> /\ inq' = Tail(inq))
            \/ /\ Len(inq') = Len(inq) + 1
               /\ SubSeq(inq', 1, Len(inq)) = inq
               /\ ~IsRestoreEvent(inq'[Len(inq')])]_vars
    /\ [](flag => Len(SelectSeq(inq, IsRestoreEvent)) <= Len(injected))

(* C22 witness: the restore event of T1 was handled, with the flag up,    *)
(* ahead of a NewTxComing that is still in the channel.                   *)
C22_Witness ==
    /\ flag
    /\ injected = <<"T1">>
    /\ last.ev = TxFromRestoreByTxId("T1")
    /\ inq = <<NewTxComing(serialize(Transaction("T2")))>>

(* a is b with some of its elements left out *)
RECURSIVE IsSubseq(_, _)
IsSubseq(a, b) ==
    IF a = <<>> THEN TRUE
    ELSE IF b = <<>> THEN FALSE
    ELSE IF Head(a) = Head(b) THEN IsSubseq(Tail(a), Tail(b))
    ELSE IsSubseq(a, Tail(b))

FirstPos(s, e) == CHOOSE i \in 1..Len(s) : s[i] = e /\ \A j \in 1..(i - 1) : s[j] # e

TransactionIds(cq) ==
    LET txs == SelectSeq(cq, LAMBDA e : e.type = "Transaction")
    IN  [i \in 1..Len(txs) |-> txs[i].tx.txid]

(* C23: the Transactions that NewTxComing events emitted are on the       *)
(* client queue in the order in which the events were received, each      *)
(* tx_id once: a duplicate is dropped and moves nothing; so for distinct  *)
(* x and y, each received once and emitted as fresh, Transaction(x) is    *)
(* ahead of Transaction(y) when NewTxComing(x) was received first.        *)
C23_OrderPreserved ==
    /\ Injective(newEmits)
    /\ IsSubseq(newEmits, arrivals)
    /\ IsSubseq(newEmits, TransactionIds(clientq))
    /\ \A x, y \in TxIds :
         (/\ x # y
          /\ {x, y} \subseteq Range(newEmits)
          /\ {x, y} \cap Range(restoreEmits) = {}
          /\ CountIn(arrivals, x) = 1 /\ CountIn(arrivals, y) = 1
          /\ FirstPos(arrivals, x) < FirstPos(arrivals, y))
         => FirstPos(clientq, EvTransaction(Transaction(x)))
              < FirstPos(clientq, EvTransaction(Transaction(y)))

(* C23 witness: NewTxComing of T2, then of T1, both fresh, were received  *)
(* and handled; the client queue holds Transaction(T2), Transaction(T1).  *)
C23_Witness ==
    /\ arrivals = <<"T2", "T1">>
    /\ newEmits = <<"T2", "T1">>
    /\ clientq = <<EvTransaction(Transaction("T2")), EvTransaction(Transaction("T1"))>>
    /\ inq = <<>>

(* C25: every tx_id of a Transaction on the client queue has a seen       *)
(* record; and when seen_and_store_txs failed for an event, that event    *)
(* put nothing on the client queue.                                       *)
C25_SeenBeforeEmit ==
    /\ \A x \in TxIds : CountTx(clientq, x) > 0 => seen[x] # NoRec
    /\ (last.ev.type \in {"NewTxComing", "TxFromRestoreByTxId"} /\ last.fault = "ledger")
          => (last.res = "err" /\ last.n = 0)

(* C25 witness: Transaction(T1) is on the client queue and T1 is seen;    *)
(* seen_and_store_txs failed for NewTxComing(T2), which emitted nothing   *)
(* and stored nothing.                                                    *)
C25_Witness ==
    /\ clientq = <<EvTransaction(Transaction("T1"))>>
    /\ seen["T1"] # NoRec
    /\ last.ev = NewTxComing(serialize(Transaction("T2")))
    /\ last.fault = "ledger"
    /\ seen["T2"] = NoRec

(* What an event may put on the client queue *)
MayEmit(ev) ==
    CASE ev.type = "NewTxComing" ->
           IF parse_zmq_data(ev.data).panic THEN {}
           ELSE {EvTransaction(parse_zmq_data(ev.data).tx)}
      [] ev.type = "TxFromRestoreByTxId" -> {EvTransaction(Transaction(ev.tx_id))}
      [] ev.type = "TxRemoved" -> {EvTxDroped(ev.tx_id)}
      [] ev.type = "ReportReorg" -> {EvTxDroped(x) : x \in Range(ev.txs)}
      [] OTHER -> {}

(* C26: a step that handles an event appends to the client queue only     *)
(* what that event may emit: Transaction for NewTxComing and              *)
(* TxFromRestoreByTxId, TxDroped for TxRemoved and ReportReorg, nothing   *)
(* for UpdateDelta, TxConfirmed, ReportHeight; ReportHeight changes no    *)
(* ledger column; and a TxRemoved whose ledger call failed changes        *)
(* neither the ledger nor the client queue.                               *)
C26_ClientQueueFrame ==
    [][HandleStep =>
         LET ev == Head(inq) IN
         /\ Len(clientq') >= Len(clientq)
         /\ SubSeq(clientq', 1, Len(clientq)) = clientq
         /\ \A i \in (Len(clientq) + 1)..Len(clientq') : clientq'[i] \in MayEmit(ev)
         /\ ev.type \in {"UpdateDelta", "TxConfirmed", "ReportHeight"} => clientq' = clientq
         /\ ev.type = "ReportHeight" => (seen' = seen /\ delta' = delta)
         /\ ev.type \in {"NewTxComing", "TxFromRestoreByTxId"} => delta' = delta
         /\ (ev.type = "TxRemoved" /\ last'.fault = "ledger")
               => (clientq' = clientq /\ delta' = delta /\ last'.res = "err")
         /\ (ev.type = "TxRemoved" /\ last'.fault = "none")
               => clientq' = Append(clientq, EvTxDroped(ev.tx_id))]_vars

(* C26 witness: the ledger call of TxRemoved(T1) failed on an Active      *)
(* delta: T1 is still Active and no TxDroped was emitted.                 *)
C26_Witness ==
    /\ last.ev = TxRemoved("T1")
    /\ last.fault = "ledger" /\ last.res = "err"
    /\ StatusOf(last.pre, "T1") = "Active"
    /\ StatusOf(delta, "T1") = "Active"
    /\ clientq = <<>>

Touched(batch) == {batch[i].key : i \in 1..Len(batch)}
LastOp(batch, k) ==
    batch[CHOOSE i \in 1..Len(batch) :
            batch[i].key = k /\ \A j \in (i + 1)..Len(batch) : batch[j].key # k]

(* A read returned what the map held before the batch or what it holds    *)
(* after the whole batch                                                  *)
NoPartialObservation ==
    kv.obs.op # "none" =>
        kv.obs.result \in {Answer(kv.obs, kv.obs.pre),
                           Answer(kv.obs, write_batch(kv.obs.pre, kv.obs.batch))}

(* After write_batch each key touched holds the result of the last op on  *)
(* it, and every other key is as it was                                   *)
BatchResult ==
    kv.done =>
        \A k \in Keys :
            IF k \in Touched(kv.batch)
            THEN get(kv.datas, k) = LastOp(kv.batch, k).value
            ELSE get(kv.datas, k) = get(kv.pre, k)

(* While every holder of the handle runs on one thread no read sees a     *)
(* partly applied batch                                                   *)
AtomicOnOneThread == kv.threads = 1 => NoPartialObservation

====
